---- MODULE Spec2Model ----
(***************************************************************************)
(* netsecfs: the node layer (internal/fs/node.go), the file handle layer   *)
(* (internal/fs/file.go) and the crypto envelope, over a metadata store    *)
(* and an object store.                                                    *)
(*                                                                         *)
(* Byte strings are symbolic values:                                       *)
(*   [t |-> "nil"]                      the nil / empty slice              *)
(*   [t |-> "str", s |-> "abc"]         plain bytes (a name, file data)    *)
(*   [t |-> "key", id |-> i]            32 random bytes; id names the draw *)
(*   [t |-> "gcm", k, n, p]             nonce || AES-GCM seal of p under k *)
(*   [t |-> "oaep", to, p]              RSA-OAEP of p for key pair `to`    *)
(***************************************************************************)
EXTENDS Integers, Sequences, FiniteSets, TLC

\* ------------------------------------------------------------------ bounds
\* Number of inode numbers GetNextInode may hand out in one behaviour of Spec,
\* and in one behaviour of SpecDeep (two entries of one name need two).
MaxAlloc == 1
MaxAllocDeep == 2
\* Largest offset of a File.Write in SpecFile and SpecWrites.
MaxOff == 1
\* How many seals SpecCrypto wraps around one value.
MaxSeal == 1

\* ------------------------------------------------------- program constants
rootID == 1
SharedInode == 2
FirstIno == 1000
maxName == 255
KeySize == 32
NonceSize == 12
TagSize == 16
userId == 1
privKey == userId

TypeFile == "File"
TypeDirectory == "Directory"

OK == "OK"
ENOENT == "ENOENT"
EEXIST == "EEXIST"
EINVAL == "EINVAL"
EPERM == "EPERM"
EIO == "EIO"
EACCES == "EACCES"
ENOTDIR == "ENOTDIR"
ENOTEMPTY == "ENOTEMPTY"
ENAMETOOLONG == "ENAMETOOLONG"
PANIC == "PANIC"
EINTR == "EINTR"

\* ------------------------------------------------------------ byte strings
Nil == [t |-> "nil"]
Str(s) == [t |-> "str", s |-> s]
Key(i) == [t |-> "key", id |-> i]
RootK == Key(0)

RECURSIVE Size(_)
Size(v) ==
    CASE v.t = "nil" -> 0
      [] v.t = "str" -> Len(v.s)
      [] v.t = "key" -> KeySize
      [] v.t = "gcm" -> NonceSize + Size(v.p) + TagSize
      [] v.t = "oaep" -> 256

\* string(name) of decrypted bytes
GoString(v) == IF v.t = "str" THEN v.s ELSE "<bytes>"

RECURSIVE Rep(_, _)
Rep(s, n) ==
    IF n = 0 THEN ""
    ELSE LET h == Rep(s, n \div 2)
         IN IF n % 2 = 1 THEN h \o h \o s ELSE h \o h

\* ---------------------------------------------------------- crypto envelope
\* aes.NewCipher accepts 16, 24 and 32 byte keys
AesKeyOk(key) == Size(key) \in {16, 24, 32}

\* CryptoHelper.Encrypt; nonce is the fresh random nonce of this call
Encrypt(key, plaintext, nonce) ==
    IF Size(key) = 0 THEN [st |-> "ok", v |-> plaintext]
    ELSE IF ~AesKeyOk(key) THEN [st |-> "panic", v |-> Nil]
    ELSE [st |-> "ok", v |-> [t |-> "gcm", k |-> key, n |-> nonce, p |-> plaintext]]

\* CryptoHelper.Decrypt
Decrypt(key, ciphertext) ==
    IF Size(key) = 0 THEN [st |-> "ok", v |-> ciphertext]
    ELSE IF ~AesKeyOk(key) THEN [st |-> "err", v |-> Nil]
    ELSE IF Size(ciphertext) < NonceSize THEN [st |-> "ok", v |-> Nil]
    ELSE IF ciphertext.t = "gcm" /\ ciphertext.k = key
         THEN [st |-> "ok", v |-> ciphertext.p]
    ELSE [st |-> "err", v |-> Nil]

\* CryptoHelper.DecryptRSA; priv names the key pair
DecryptRSA(priv, ciphertext) ==
    IF Size(ciphertext) = 0 THEN [st |-> "ok", v |-> Nil]
    ELSE IF ciphertext.t = "oaep" /\ ciphertext.to = priv
         THEN [st |-> "ok", v |-> ciphertext.p]
    ELSE [st |-> "err", v |-> Nil]

\* ------------------------------------------------------------ map helpers
Put(f, k, v) == [x \in DOMAIN f \cup {k} |-> IF x = k THEN v ELSE f[x]]
Del(f, k) == [x \in DOMAIN f \ {k} |-> f[x]]
Empty == [x \in {} |-> 0]

\* ------------------------------------------------------------------- state
VARIABLES
    rootKey,    \* the key NewRootNode was given
    nodeRows,   \* metadata: inode -> node row
    edges,      \* metadata: set of edge rows
    nextIno,    \* metadata: the inode counter
    blobs,      \* object store: inode -> blob
    inodes,     \* live in-memory nodes: inode -> [key, map, dir, kids]
    caches,     \* the inoMap objects: map id -> (name -> inode)
    crashed,    \* the process died in a panic
    reported,   \* history: node -> the names its latest Readdir streamed,
                \* kept until the next upcall on that node other than Lookup
    unlinked    \* history: the latest successful Unlink, until its name is created again

\* the crypto helper called on its own
VARIABLES
    cryptoOp,   \* the method called last: "none", "Encrypt" or "Decrypt"
    cryptoKey,  \* its key argument
    cryptoIn,   \* its plaintext / ciphertext argument
    cryptoOut   \* what it returned

\* File.Write calls in progress, one per goroutine of the transport
VARIABLES
    wpc,        \* goroutine -> "idle", or "put" between meta.Write and obj.Put
    wdata,      \* goroutine -> the data of its call
    metaBy,     \* history: the goroutine whose meta.Write ran last (0: none)
    putBy       \* history: the goroutine whose obj.Put ran last (0: none)

\* dbMeta: the setting table, m.fmt and the transaction in progress
VARIABLES
    tables,     \* the tables Sync2 has created
    setting,    \* the value of the "format" row, or NoRow
    mfmt,       \* m.fmt
    call,       \* the dbMeta method in progress: [op, arg, stage, ok]
    txnPc,      \* "idle", "attempt" (top of the loop), "sleep", "done"
    attempt,    \* the loop variable i of txn / roTxn
    txErr,      \* err of the latest attempt
    lastErr,    \* lastErr
    runs,       \* history: how often this transaction ran its body
    cancelled,  \* the request's context is cancelled
    result,     \* what the method returned to its caller
    inited      \* history: the format of the latest successful Init, or NoRow

\* upcalls that have reached their first statement on n.inoMap
VARIABLES
    mpc,        \* goroutine -> "idle", or "map" while inside the map access
    mcall       \* goroutine -> the upcall it runs: [op, n, name], or NoCall

\* Node.Statfs
VARIABLES
    statfsOut   \* the StatfsOut of the latest Statfs call, or NoStatfs

fsVars == <<rootKey, nodeRows, edges, nextIno, blobs, inodes, caches, crashed,
            reported, unlinked>>
statVars == <<statfsOut>>
raceVars == <<mpc, mcall>>
cryptoVars == <<cryptoOp, cryptoKey, cryptoIn, cryptoOut>>
writeVars == <<wpc, wdata, metaBy, putBy>>
metaVars == <<tables, setting, mfmt, call, txnPc, attempt, txErr, lastErr, runs,
              cancelled, result, inited>>
vars == <<fsVars, statVars, cryptoVars, writeVars, metaVars, raceVars>>

\* ---------------------------------------------------------------- inputs
LongName == Rep("x", maxName + 1)
Names == {"a"}
CreateNames == Names \cup {LongName}
LookupNames == Names \cup {"shared", LongName}
RmdirNames == Names \cup {"shared", ".", "..", LongName}
Payloads == {Str("HI")}
Offsets == {0}

\* ------------------------------------------------- metadata store (dbMeta)
Row(typ, nlink, parent) ==
    [type |-> typ, nlink |-> nlink, length |-> 0, parent |-> parent]

Incoming(ino) == {e \in edges : e.ino = ino}
EdgeOf(parent, ino) == {e \in edges : e.parent = parent /\ e.ino = ino}
ChildrenOf(ino) == {e \in edges : e.parent = ino}

RECURSIVE SortEdges(_)
SortEdges(S) ==
    IF S = {} THEN <<>>
    ELSE LET e == CHOOSE x \in S : \A y \in S : x.ino <= y.ino
         IN <<e>> \o SortEdges(S \ {e})

\* the key column of the unique incoming edge
MetaGetKey(ino) ==
    IF Incoming(ino) = {} THEN [errno |-> ENOENT, key |-> Nil]
    ELSE [errno |-> OK, key |-> (CHOOSE e \in Incoming(ino) : TRUE).key]

\* the same, for an edge under SharedInode that is directed at user
MetaGetSharedKey(user, ino) ==
    LET E == EdgeOf(SharedInode, ino)
    IN IF E = {} THEN [errno |-> ENOENT, key |-> Nil]
       ELSE LET e == CHOOSE x \in E : TRUE
            IN IF e.key.t = "oaep" /\ e.key.to = user
               THEN [errno |-> OK, key |-> e.key]
               ELSE [errno |-> EACCES, key |-> Nil]

MetaLookup(user, parent, child) ==
    IF EdgeOf(parent, child) = {} \/ child \notin DOMAIN nodeRows
    THEN [errno |-> ENOENT, type |-> TypeFile]
    ELSE [errno |-> OK, type |-> nodeRows[child].type]

MetaGetAttr(ino) ==
    IF ino \in DOMAIN nodeRows
    THEN [errno |-> OK, parent |-> nodeRows[ino].parent]
    ELSE [errno |-> ENOENT, parent |-> 0]

\* the edges under ino that user may see, in row order
MetaReaddir(ino, user) ==
    SortEdges({e \in ChildrenOf(ino) :
                 ino = SharedInode => (e.key.t = "oaep" /\ e.key.to = user)})

MetaMknod(parent, typ, ino, encName, wrappedKey) ==
    IF parent \notin DOMAIN nodeRows
    THEN [errno |-> ENOENT, edges |-> edges, rows |-> nodeRows]
    ELSE IF nodeRows[parent].type # TypeDirectory
    THEN [errno |-> ENOTDIR, edges |-> edges, rows |-> nodeRows]
    ELSE IF \E e \in edges : e.parent = parent /\ e.name = encName
    THEN [errno |-> EEXIST, edges |-> edges, rows |-> nodeRows]
    ELSE [errno |-> OK,
          edges |-> edges \cup {[parent |-> parent, name |-> encName, ino |-> ino,
                                 type |-> typ, key |-> wrappedKey]},
          rows |-> LET r == Put(nodeRows, ino,
                               Row(typ, IF typ = TypeDirectory THEN 2 ELSE 1, parent))
                   IN IF typ = TypeDirectory
                      THEN [r EXCEPT ![parent].nlink = @ + 1]
                      ELSE r]

MetaRmdir(parent, ino) ==
    IF ino \in {rootID, SharedInode}
    THEN [errno |-> EPERM, edges |-> edges, rows |-> nodeRows]
    ELSE IF EdgeOf(parent, ino) = {} \/ ino \notin DOMAIN nodeRows
    THEN [errno |-> ENOENT, edges |-> edges, rows |-> nodeRows]
    ELSE IF nodeRows[ino].type # TypeDirectory
    THEN [errno |-> ENOTDIR, edges |-> edges, rows |-> nodeRows]
    ELSE IF ChildrenOf(ino) # {}
    THEN [errno |-> ENOTEMPTY, edges |-> edges, rows |-> nodeRows]
    ELSE [errno |-> OK,
          edges |-> edges \ EdgeOf(parent, ino),
          rows |-> LET r == Del(nodeRows, ino)
                   IN IF parent \in DOMAIN r
                      THEN [r EXCEPT ![parent].nlink = @ - 1]
                      ELSE r]

MetaUnlink(parent, ino) ==
    IF EdgeOf(parent, ino) = {} \/ ino \notin DOMAIN nodeRows
    THEN [errno |-> ENOENT, edges |-> edges, rows |-> nodeRows]
    ELSE IF nodeRows[ino].type = TypeDirectory
    THEN [errno |-> EPERM, edges |-> edges, rows |-> nodeRows]
    ELSE [errno |-> OK,
          edges |-> edges \ EdgeOf(parent, ino),
          rows |-> IF nodeRows[ino].nlink <= 1
                   THEN Del(nodeRows, ino)
                   ELSE [nodeRows EXCEPT ![ino].nlink = @ - 1]]

MetaWrite(ino, data, off) ==
    IF ino \notin DOMAIN nodeRows
    THEN [errno |-> ENOENT, rows |-> nodeRows]
    ELSE [errno |-> OK,
          rows |-> [nodeRows EXCEPT ![ino].length =
                        IF @ > off + Size(data) THEN @ ELSE off + Size(data)]]


\* ---------------------------------------------------------- the node layer
\* what an upcall returns: errno, the store calls it made, and the state it leaves
Ret(errno, calls, ino) ==
    [errno |-> errno, calls |-> calls, ino |-> ino, key |-> Nil, dir |-> FALSE,
     edges |-> edges, rows |-> nodeRows, caches |-> caches, blobs |-> blobs,
     nextIno |-> nextIno, names |-> {}]

\* variant: the length test off by one
NameTooLong_OffByOne(name) == Len(name) > maxName + 1

\* len(name) > maxName
NameTooLong(name) == Len(name) > maxName

\* variant: a map read that reports every name as present
inoMapGet_AlwaysOk(n, name) ==
    LET m == caches[inodes[n].map]
    IN [ino |-> IF name \in DOMAIN m THEN m[name] ELSE 0, ok |-> TRUE]

\* ino, ok := n.inoMap[name]
inoMapGet(n, name) ==
    LET m == caches[inodes[n].map]
    IN IF name \in DOMAIN m THEN [ino |-> m[name], ok |-> TRUE]
       ELSE [ino |-> 0, ok |-> FALSE]

\* n.GetChild(name) != nil
HasChild(n, name) == name \in DOMAIN inodes[n].kids

\* the key this directory node unwraps its entries' keys with
Unwrap(n, wrapped) ==
    IF n = SharedInode THEN DecryptRSA(privKey, wrapped)
    ELSE Decrypt(inodes[n].key, wrapped)

LookupRes(n, name) ==
    IF NameTooLong(name) THEN Ret(ENAMETOOLONG, <<>>, 0)
    ELSE LET c == inoMapGet(n, name)
             ino == c.ino
             getKey == IF n = SharedInode THEN "GetSharedKey" ELSE "GetKey"
             k == IF n = SharedInode THEN MetaGetSharedKey(userId, ino)
                  ELSE MetaGetKey(ino)
         IN IF ~c.ok THEN Ret(ENOENT, <<>>, 0)
            ELSE IF k.errno # OK THEN Ret(k.errno, <<getKey>>, ino)
            ELSE LET keyDec == Unwrap(n, k.key)
                     l == MetaLookup(userId, n, ino)
                 IN IF keyDec.st # "ok" THEN Ret(EINVAL, <<getKey>>, ino)
                    ELSE IF l.errno # OK THEN Ret(l.errno, <<getKey, "Lookup">>, ino)
                    ELSE [Ret(OK, <<getKey, "Lookup">>, ino) EXCEPT
                             !.key = keyDec.v, !.dir = (l.type = TypeDirectory)]

\* `_, exist := n.inoMap[name]; if !exist { n.inoMap[name] = ino }`
CreateInstall(cache, name, ino) ==
    IF name \in DOMAIN cache THEN cache ELSE Put(cache, name, ino)

\* Create (typ = TypeFile) and Mkdir (typ = TypeDirectory) up to the Mknod call
NewEntry(n, name, typ) ==
    LET ino == nextIno
        key == Key(ino)
        cipher == Encrypt(key, Str(name), 2 * ino)
        keyCipher == Encrypt(inodes[n].key, key, 2 * ino + 1)
        mk == MetaMknod(n, typ, ino, cipher.v, keyCipher.v)
    IN IF cipher.st = "panic" \/ keyCipher.st = "panic"
       THEN [Ret(PANIC, <<"GetNextInode">>, ino) EXCEPT !.nextIno = ino + 1]
       ELSE [Ret(mk.errno, <<"GetNextInode", "Mknod">>, ino) EXCEPT
                !.nextIno = ino + 1, !.edges = mk.edges, !.rows = mk.rows,
                !.key = key, !.dir = (typ = TypeDirectory)]

CreateRes(n, name) ==
    IF NameTooLong(name) THEN Ret(ENAMETOOLONG, <<>>, 0)
    ELSE IF HasChild(n, name) THEN Ret(EEXIST, <<>>, 0)
    ELSE LET r == NewEntry(n, name, TypeFile)
             m == inodes[n].map
         IN IF r.errno # OK THEN r
            ELSE [r EXCEPT !.caches =
                     [caches EXCEPT ![m] = CreateInstall(@, name, r.ino)]]

MkdirRes(n, name) ==
    IF NameTooLong(name) THEN Ret(ENAMETOOLONG, <<>>, 0)
    ELSE IF HasChild(n, name) THEN Ret(EEXIST, <<>>, 0)
    ELSE LET r == NewEntry(n, name, TypeDirectory)
         IN IF r.errno # OK THEN r
            ELSE [r EXCEPT !.caches = Put(caches, r.ino, Empty)]

\* the loop of Readdir over entries[i..], filling cache and the stream
RECURSIVE ReaddirLoop(_, _, _, _, _)
ReaddirLoop(n, entries, i, cache, names) ==
    IF i > Len(entries) THEN [errno |-> OK, cache |-> cache, names |-> names]
    ELSE LET e == entries[i]
             key == Unwrap(n, e.key)
             name == Decrypt(key.v, e.name)
         IN IF key.st # "ok" THEN [errno |-> EINVAL, cache |-> cache, names |-> {}]
            ELSE IF name.st # "ok"
            THEN [errno |-> EINVAL, cache |-> cache, names |-> {}]
            ELSE LET s == GoString(name.v)
                 IN ReaddirLoop(n, entries, i + 1,
                        IF s # "." /\ s # ".." THEN Put(cache, s, e.ino) ELSE cache,
                        names \cup {s})

ReaddirRes(n) ==
    LET attr == MetaGetAttr(n)
        dots == << [ino |-> n, name |-> Str("."), key |-> Nil],
                   [ino |-> IF n = rootID THEN rootID ELSE attr.parent,
                    name |-> Str(".."), key |-> Nil] >>
        rows == MetaReaddir(n, userId)
        entries == dots \o [j \in 1..Len(rows) |->
                       [ino |-> rows[j].ino, name |-> rows[j].name, key |-> rows[j].key]]
        m == inodes[n].map
        l == ReaddirLoop(n, entries, 1, caches[m], {})
    IN IF attr.errno # OK THEN Ret(attr.errno, <<"GetAttr">>, 0)
       ELSE [Ret(l.errno, <<"GetAttr", "Readdir">>, 0) EXCEPT
                !.caches = [caches EXCEPT ![m] = l.cache], !.names = l.names]

\* variant: Rmdir without the test for "shared"
RmdirReserved_NoShared(name) ==
    IF name = "." THEN EINVAL
    ELSE IF name = ".." THEN ENOTEMPTY
    ELSE OK

\* the literal names Rmdir refuses
RmdirReserved(name) ==
    IF name = "shared" THEN EPERM
    ELSE IF name = "." THEN EINVAL
    ELSE IF name = ".." THEN ENOTEMPTY
    ELSE OK

\* delete(n.inoMap, name)
inoMapDelete(cache, name) == Del(cache, name)

RmdirRes(n, name) ==
    IF NameTooLong(name) THEN Ret(ENAMETOOLONG, <<>>, 0)
    ELSE IF RmdirReserved(name) # OK THEN Ret(RmdirReserved(name), <<>>, 0)
    ELSE LET ino == inoMapGet(n, name).ino
             rm == MetaRmdir(n, ino)
             m == inodes[n].map
         IN [Ret(rm.errno, <<"Rmdir">>, ino) EXCEPT
                !.edges = rm.edges, !.rows = rm.rows,
                !.caches = [caches EXCEPT ![m] = inoMapDelete(@, name)]]

\* objOk: whether the object store carries out the delete
UnlinkRes(n, name, objOk) ==
    IF NameTooLong(name) THEN Ret(ENAMETOOLONG, <<>>, 0)
    ELSE LET ino == inoMapGet(n, name).ino
             un == MetaUnlink(n, ino)
             m == inodes[n].map
             r == [Ret(un.errno, <<"Unlink">>, ino) EXCEPT
                      !.edges = un.edges, !.rows = un.rows,
                      !.caches = [caches EXCEPT ![m] = inoMapDelete(@, name)]]
         IN IF un.errno # OK THEN r
            ELSE IF ~HasChild(n, name) THEN [r EXCEPT !.errno = PANIC]
            ELSE IF ~objOk THEN [r EXCEPT !.errno = EIO, !.calls = <<"Unlink", "Delete">>]
            ELSE [r EXCEPT !.calls = <<"Unlink", "Delete">>,
                           !.blobs = Del(blobs, inodes[n].kids[name])]

\* ---------------------------------------------------- the file handle layer
\* objOk: whether the object store carries out the put
WriteRes(f, data, off, objOk) ==
    LET w == MetaWrite(f, data, off)
    IN IF w.errno # OK THEN Ret(w.errno, <<"Write">>, f)
       ELSE IF ~objOk
       THEN [Ret(EIO, <<"Write", "Put">>, f) EXCEPT !.rows = w.rows]
       ELSE [Ret(OK, <<"Write", "Put">>, f) EXCEPT
                !.rows = w.rows, !.blobs = Put(blobs, f, data)]

ReadRes(f, off) ==
    IF f \in DOMAIN blobs THEN Ret(OK, <<"Get">>, f) ELSE Ret(EIO, <<"Get">>, f)


\* ------------------------------------------- the in-memory tree (fs.Inode)
Node(key, map, dir) == [key |-> key, map |-> map, dir |-> dir, kids |-> Empty]

\* n.NewInode: an inode number that is already live keeps its node
NewInode(I, ino, node) == IF ino \in DOMAIN I THEN I ELSE Put(I, ino, node)

\* the transport links the returned child under its parent
AddChild(I, parent, name, ino) == [I EXCEPT ![parent].kids = Put(@, name, ino)]
RmChild(I, parent, name) == [I EXCEPT ![parent].kids = Del(@, name)]

Dirs == {n \in DOMAIN inodes : inodes[n].dir}
Files == {n \in DOMAIN inodes : ~inodes[n].dir}

\* history: nothing streamed, and what is kept of h after an upcall on node n
NoReport == Empty
Forgot(h, n) == Del(h, n)
NoUnlink == [dir |-> 0, name |-> "", ino |-> 0]
Recreated(u, n, name, errno) ==
    IF errno = OK /\ u.dir = n /\ u.name = name THEN NoUnlink ELSE u

\* ------------------------------------------------ dbMeta: values and errors
MaxTries == 50
RootMode == 511

NoRow == [t |-> "none"]
AllTables == <<"setting", "edge", "node">>
TablesUpTo(k) == {AllTables[j] : j \in 1..k}

\* a Format descriptor, and its JSON form in the setting table
Format(name) == [name |-> name]
Formats == {Format("fs1"), Format("fs2")}
MarshalIndent(format) == [t |-> "json", v |-> format]
Unmarshal(body) ==
    IF body.t = "json" THEN [st |-> "ok", v |-> body.v] ELSE [st |-> "err", v |-> NoRow]

\* Go error values; a message is the sequence of its words
NoErr == [k |-> "nil"]
Errno(e) == [k |-> "errno", e |-> e]
Error(msg) == [k |-> "error", msg |-> msg]
ErrLocked == Error(<<"database", "is", "locked">>)
ErrTooMany == Error(<<"pq:", "sorry,", "Too", "Many", "Clients", "already">>)
ErrDisk == Error(<<"disk", "I/O", "error">>)
ErrUnique == Error(<<"UNIQUE", "constraint", "failed">>)
ErrNotFormatted == Error(<<"database", "is", "not", "formatted">>)
ErrJson == Error(<<"json:">>)
ErrUpdate == Error(<<"update", "format">>)
ErrCreateTable == Error(<<"create", "table">>)

\* err.Error()
ErrorMsg(e) ==
    IF e.k = "error" THEN e.msg
    ELSE IF e.k = "errno" /\ e.e = ENOENT THEN <<"no", "such", "file", "or", "directory">>
    ELSE <<"errno">>

\* strings.ToLower, word by word
LowerWord(w) ==
    CASE w = "Too" -> "too"
      [] w = "Many" -> "many"
      [] w = "Clients" -> "clients"
      [] w = "UNIQUE" -> "unique"
      [] w = "I/O" -> "i/o"
      [] OTHER -> w
ToLower(msg) == [j \in 1..Len(msg) |-> LowerWord(msg[j])]

\* strings.Contains
Contains(msg, pat) ==
    \E j \in 0..(Len(msg) - Len(pat)) : SubSeq(msg, j + 1, j + Len(pat)) = pat

\* var errBusy error: never assigned, so it is nil
errBusy == NoErr
ErrorsIs(e, target) == e = target

\* variant: every error is taken for a transient one
shouldRetry_Always(e) == TRUE

shouldRetry(e) ==
    LET msg == ToLower(ErrorMsg(e))
    IN IF Contains(msg, <<"too", "many", "connections">>)
          \/ Contains(msg, <<"too", "many", "clients">>)
       THEN TRUE
       ELSE ErrorsIs(e, errBusy) \/ Contains(msg, <<"database", "is", "locked">>)

\* `if eno, ok := err.(syscall.Errno); ok && eno == 0 { err = nil }`
DropErrnoZero(e) == IF e.k = "errno" /\ e.e = OK THEN NoErr ELSE e

\* what the database does to one attempt: nothing, or a failure of its own
Faults == {NoErr, ErrLocked, ErrTooMany, ErrDisk}

\* variant: a root row with three links
RootNode_Nlink3 ==
    [type |-> TypeDirectory, mode |-> RootMode, nlink |-> 3, length |-> 4096,
     parent |-> 1]

\* the row Init inserts for the root
RootNode ==
    [type |-> TypeDirectory, mode |-> RootMode, nlink |-> 2, length |-> 4096,
     parent |-> 1]

NoCall == [op |-> "none"]
NoResult == [op |-> "none"]

\* ----------------------------------------------------------- idle layers
Writers == {1, 2}
NoWrite == [ino |-> 0, data |-> Nil, off |-> 0]

NoStatfs == [errno |-> "none"]

StatIdle == statfsOut = NoStatfs

\* the goroutines the transport runs upcalls on
Goroutines == {1, 2}

RaceIdle ==
    /\ mpc = [g \in Goroutines |-> "idle"]
    /\ mcall = [g \in Goroutines |-> NoCall]

CryptoIdle ==
    /\ cryptoOp = "none"
    /\ cryptoKey = Nil
    /\ cryptoIn = Nil
    /\ cryptoOut = [st |-> "ok", v |-> Nil]

WritersIdle ==
    /\ wpc = [w \in Writers |-> "idle"]
    /\ wdata = [w \in Writers |-> NoWrite]
    /\ metaBy = 0
    /\ putBy = 0

TxnIdle ==
    /\ call = NoCall
    /\ txnPc = "idle"
    /\ attempt = 0
    /\ txErr = NoErr
    /\ lastErr = NoErr
    /\ runs = 0
    /\ cancelled = FALSE
    /\ result = NoResult

\* a volume formatted as fs1, no dbMeta call in progress
MetaIdle ==
    /\ tables = TablesUpTo(3)
    /\ setting = MarshalIndent(Format("fs1"))
    /\ mfmt = Format("fs1")
    /\ inited = Format("fs1")
    /\ TxnIdle

\* ------------------------------------------------------------------- Init
SharedK == Key(SharedInode)

\* the mounted volume: the root, and the shared directory under it
Mounted ==
    /\ rootKey \in {Nil, RootK}
    /\ nodeRows = (rootID :> Row(TypeDirectory, 3, rootID))
                  @@ (SharedInode :> Row(TypeDirectory, 2, rootID))
    /\ edges = {[parent |-> rootID, name |-> Encrypt(SharedK, Str("shared"), 0).v,
                 ino |-> SharedInode, type |-> TypeDirectory,
                 key |-> Encrypt(rootKey, SharedK, 1).v]}
    /\ nextIno = FirstIno
    /\ blobs = Empty
    /\ inodes = (rootID :> Node(rootKey, rootID, TRUE))
    /\ caches = (rootID :> Empty)
    /\ crashed = FALSE
    /\ reported = NoReport
    /\ unlinked = NoUnlink

Init == Mounted /\ StatIdle /\ RaceIdle /\ CryptoIdle /\ WritersIdle /\ MetaIdle

\* ---------------------------------------------------------------- actions
Lookup(n, name) ==
    /\ ~crashed
    /\ UNCHANGED <<statVars, cryptoVars, writeVars, metaVars, raceVars>>
    /\ LET r == LookupRes(n, name)
       IN /\ inodes' = IF r.errno = OK
                       THEN AddChild(NewInode(inodes, r.ino,
                                Node(r.key, inodes[n].map, r.dir)), n, name, r.ino)
                       ELSE inodes
    /\ UNCHANGED <<rootKey, nodeRows, edges, nextIno, blobs, caches, crashed,
                   reported, unlinked>>

\* the model stops allocating after limit inode numbers
MayAllocate(n, name, limit) ==
    NameTooLong(name) \/ HasChild(n, name) \/ nextIno < FirstIno + limit

CreateStep(n, name) ==
    /\ ~crashed
    /\ UNCHANGED <<statVars, cryptoVars, writeVars, metaVars, raceVars>>
    /\ LET r == CreateRes(n, name)
       IN /\ edges' = r.edges
          /\ nodeRows' = r.rows
          /\ nextIno' = r.nextIno
          /\ caches' = r.caches
          /\ crashed' = (r.errno = PANIC)
          /\ inodes' = IF r.errno = OK
                       THEN AddChild(NewInode(inodes, r.ino,
                                Node(r.key, inodes[n].map, FALSE)), n, name, r.ino)
                       ELSE inodes
          /\ unlinked' = Recreated(unlinked, n, name, r.errno)
    /\ reported' = Forgot(reported, n)
    /\ UNCHANGED <<rootKey, blobs>>

Create(n, name, limit) == MayAllocate(n, name, limit) /\ CreateStep(n, name)

MkdirStep(n, name) ==
    /\ ~crashed
    /\ UNCHANGED <<statVars, cryptoVars, writeVars, metaVars, raceVars>>
    /\ LET r == MkdirRes(n, name)
       IN /\ edges' = r.edges
          /\ nodeRows' = r.rows
          /\ nextIno' = r.nextIno
          /\ caches' = r.caches
          /\ crashed' = (r.errno = PANIC)
          /\ inodes' = IF r.errno = OK
                       THEN AddChild(NewInode(inodes, r.ino,
                                Node(r.key, r.ino, TRUE)), n, name, r.ino)
                       ELSE inodes
          /\ unlinked' = Recreated(unlinked, n, name, r.errno)
    /\ reported' = Forgot(reported, n)
    /\ UNCHANGED <<rootKey, blobs>>

Mkdir(n, name, limit) == MayAllocate(n, name, limit) /\ MkdirStep(n, name)

Readdir(n) ==
    /\ ~crashed
    /\ UNCHANGED <<statVars, cryptoVars, writeVars, metaVars, raceVars>>
    /\ LET r == ReaddirRes(n)
       IN /\ caches' = r.caches
          /\ reported' = IF r.errno = OK THEN Put(reported, n, r.names)
                          ELSE Forgot(reported, n)
    /\ UNCHANGED <<rootKey, nodeRows, edges, nextIno, blobs, inodes, crashed, unlinked>>

Rmdir(n, name) ==
    /\ ~crashed
    /\ UNCHANGED <<statVars, cryptoVars, writeVars, metaVars, raceVars>>
    /\ LET r == RmdirRes(n, name)
       IN /\ edges' = r.edges
          /\ nodeRows' = r.rows
          /\ caches' = r.caches
          /\ inodes' = IF r.errno = OK THEN RmChild(inodes, n, name) ELSE inodes
    /\ reported' = Forgot(reported, n)
    /\ UNCHANGED <<rootKey, nextIno, blobs, crashed, unlinked>>

Unlink(n, name, objOk) ==
    /\ ~crashed
    /\ UNCHANGED <<statVars, cryptoVars, writeVars, metaVars, raceVars>>
    /\ LET r == UnlinkRes(n, name, objOk)
       IN /\ edges' = r.edges
          /\ nodeRows' = r.rows
          /\ caches' = r.caches
          /\ blobs' = r.blobs
          /\ crashed' = (r.errno = PANIC)
          /\ inodes' = IF r.errno = OK THEN RmChild(inodes, n, name) ELSE inodes
          /\ unlinked' = IF r.errno = OK
                         THEN [dir |-> n, name |-> name, ino |-> r.ino]
                         ELSE unlinked
    /\ reported' = Forgot(reported, n)
    /\ UNCHANGED <<rootKey, nextIno>>

Write(f, data, off, objOk) ==
    /\ ~crashed
    /\ UNCHANGED <<statVars, cryptoVars, writeVars, metaVars, raceVars>>
    /\ LET r == WriteRes(f, data, off, objOk)
       IN /\ nodeRows' = r.rows
          /\ blobs' = r.blobs
    /\ UNCHANGED <<rootKey, edges, nextIno, inodes, caches, crashed, reported, unlinked>>

Read(f, off) ==
    /\ ~crashed
    /\ UNCHANGED <<statVars, cryptoVars, writeVars, metaVars, raceVars>>
    /\ ReadRes(f, off).errno \in {OK, EIO}
    /\ UNCHANGED fsVars

\* the kernel forgets a node that has no child left in memory
Forget(i) ==
    /\ ~crashed
    /\ UNCHANGED <<statVars, cryptoVars, writeVars, metaVars, raceVars>>
    /\ i # rootID
    /\ DOMAIN inodes[i].kids = {}
    /\ LET left == [j \in DOMAIN inodes \ {i} |->
                      [inodes[j] EXCEPT !.kids =
                          [s \in {x \in DOMAIN @ : @[x] # i} |-> @[s]]]]
       IN /\ inodes' = left
          /\ caches' = [m \in {left[j].map : j \in DOMAIN left} |-> caches[m]]
    /\ reported' = Forgot(reported, i)
    /\ unlinked' = IF unlinked.dir = i THEN NoUnlink ELSE unlinked
    /\ UNCHANGED <<rootKey, nodeRows, edges, nextIno, blobs, crashed>>

\* unmount and mount again: NewRootNode builds a root node with an empty map
Remount ==
    /\ UNCHANGED <<statVars, cryptoVars, writeVars, metaVars, raceVars>>
    /\ inodes' = (rootID :> Node(rootKey, rootID, TRUE))
    /\ caches' = (rootID :> Empty)
    /\ crashed' = FALSE
    /\ reported' = NoReport
    /\ unlinked' = NoUnlink
    /\ UNCHANGED <<rootKey, nodeRows, edges, nextIno, blobs>>

Next(limit) ==
    \/ \E n \in Dirs, name \in LookupNames : Lookup(n, name)
    \/ \E n \in Dirs, name \in CreateNames : Create(n, name, limit)
    \/ \E n \in Dirs, name \in CreateNames : Mkdir(n, name, limit)
    \/ \E n \in Dirs : Readdir(n)
    \/ \E n \in Dirs, name \in RmdirNames : Rmdir(n, name)
    \/ \E n \in Dirs, name \in LookupNames, objOk \in BOOLEAN : Unlink(n, name, objOk)
    \/ \E f \in Files, data \in Payloads, off \in Offsets, objOk \in BOOLEAN :
          Write(f, data, off, objOk)
    \/ \E f \in Files, off \in Offsets : Read(f, off)
    \/ \E i \in DOMAIN inodes : Forget(i)
    \/ Remount

Spec == Init /\ [][Next(MaxAlloc)]_vars
SpecDeep == Init /\ [][Next(MaxAllocDeep)]_vars

\* ============================================ File.Write: lengths and offsets
\* one file, written with data of two lengths at offsets 0..MaxOff; the object
\* store carries out every put
WideOffsets == 0..MaxOff
WidePayloads == {Str("HI"), Str("HELLO")}

NextFile ==
    \/ \E name \in Names : Create(rootID, name, MaxAlloc)
    \/ \E f \in Files, data \in WidePayloads, off \in WideOffsets : Write(f, data, off, TRUE)
    \/ \E f \in Files, off \in WideOffsets : Read(f, off)
    \/ \E n \in Dirs : Readdir(n)
    \/ \E n \in Dirs, name \in Names : Lookup(n, name)
    \/ \E n \in Dirs, name \in Names, objOk \in BOOLEAN : Unlink(n, name, objOk)
    \/ \E j \in DOMAIN inodes : Forget(j)
    \/ Remount

SpecFile == Init /\ [][NextFile]_vars

\* ================================== File.Write called from two goroutines
\* File.Write up to and including meta.Write
WriteMeta(w, f, data, off) ==
    /\ ~crashed
    /\ wpc[w] = "idle"
    /\ LET m == MetaWrite(f, data, off)
       IN /\ nodeRows' = m.rows
          /\ IF m.errno # OK
             THEN UNCHANGED <<wpc, wdata, metaBy>>
             ELSE /\ wpc' = [wpc EXCEPT ![w] = "put"]
                  /\ wdata' = [wdata EXCEPT ![w] = [ino |-> f, data |-> data, off |-> off]]
                  /\ metaBy' = w
    /\ UNCHANGED <<putBy, rootKey, edges, nextIno, blobs, inodes, caches, crashed,
                   reported, unlinked, statVars, cryptoVars, metaVars, raceVars>>

\* the rest of File.Write: obj.Put and the return
WritePut(w) ==
    /\ ~crashed
    /\ wpc[w] = "put"
    /\ blobs' = Put(blobs, wdata[w].ino, wdata[w].data)
    /\ putBy' = w
    /\ wpc' = [wpc EXCEPT ![w] = "idle"]
    /\ wdata' = [wdata EXCEPT ![w] = NoWrite]
    /\ UNCHANGED <<metaBy, rootKey, nodeRows, edges, nextIno, inodes, caches, crashed,
                   reported, unlinked, statVars, cryptoVars, metaVars, raceVars>>

NextWrites ==
    \/ \E name \in Names : Create(rootID, name, MaxAlloc)
    \/ \E w \in Writers, f \in Files, data \in WidePayloads, off \in WideOffsets :
          WriteMeta(w, f, data, off)
    \/ \E w \in Writers : WritePut(w)

SpecWrites == Init /\ [][NextWrites]_vars

\* =========================================================== Node.Statfs
\* A uint64 is four 16-bit limbs, least significant first.
Limb == 65536
U64(n) == <<n % Limb, (n \div Limb) % Limb, (n \div Limb) \div Limb, 0>>

\* x - y modulo 2^64
SubU64(x, y) ==
    LET b0 == IF x[1] < y[1] THEN 1 ELSE 0
        b1 == IF x[2] < y[2] + b0 THEN 1 ELSE 0
        b2 == IF x[3] < y[3] + b1 THEN 1 ELSE 0
    IN <<(x[1] - y[1]) % Limb, (x[2] - y[2] - b0) % Limb,
         (x[3] - y[3] - b1) % Limb, (x[4] - y[4] - b2) % Limb>>

\* x / d for a divisor below 2^15
DivU64(x, d) ==
    LET r4 == x[4] % d
        r3 == (r4 * Limb + x[3]) % d
        r2 == (r3 * Limb + x[2]) % d
    IN <<(r2 * Limb + x[1]) \div d, (r3 * Limb + x[2]) \div d,
         (r4 * Limb + x[3]) \div d, x[4] \div d>>

fileBlockSize == 4096
\* 1125899906842624 = 4 * 2^48
maxSize == <<0, 0, 0, 4>>

StatfsRes ==
    [errno   |-> OK,
     Blocks  |-> DivU64(maxSize, fileBlockSize),
     Bfree   |-> DivU64(SubU64(maxSize, U64(1000000000)), fileBlockSize),
     Bavail  |-> DivU64(SubU64(maxSize, U64(1000000000)), fileBlockSize),
     Files   |-> U64(1000000000),
     Ffree   |-> U64(1000000000),
     Bsize   |-> fileBlockSize,
     NameLen |-> 255,
     Frsize  |-> fileBlockSize]

Statfs(n) ==
    /\ ~crashed
    /\ n \in DOMAIN inodes
    /\ statfsOut' = StatfsRes
    /\ UNCHANGED <<rootKey, nodeRows, edges, nextIno, blobs, inodes, caches, crashed,
                   reported, unlinked>>
    /\ UNCHANGED <<cryptoVars, writeVars, metaVars, raceVars>>

NextStat ==
    \/ NextFile
    \/ \E n \in DOMAIN inodes : Statfs(n)

SpecStat == Init /\ [][NextStat]_vars

\* ===================== upcalls of two goroutines on nodes sharing an inoMap
\* The handlers below begin with the map read (node.go:88, 379, 396); Node has
\* no mutex, so nothing delays a goroutine that reaches the statement.
MapOps == {"Lookup", "Rmdir", "Unlink"}

\* the inoMap object the node of a call uses
MapOf(c) == inodes[c.n].map

\* the handler deletes from the map before it returns
MapWrites(c) == c.op \in {"Rmdir", "Unlink"}

\* the tests a handler makes before it touches n.inoMap
ReachesMap(op, name) ==
    /\ ~NameTooLong(name)
    /\ op = "Rmdir" => RmdirReserved(name) = OK

MapEnter(g, op, n, name) ==
    /\ ~crashed
    /\ mpc[g] = "idle"
    /\ ReachesMap(op, name)
    /\ mpc' = [mpc EXCEPT ![g] = "map"]
    /\ mcall' = [mcall EXCEPT ![g] = [op |-> op, n |-> n, name |-> name]]
    /\ UNCHANGED <<fsVars, statVars, cryptoVars, writeVars, metaVars>>

\* another goroutine is inside the same map and one of the two writes it
MapRace(g) ==
    \E h \in Goroutines \ {g} :
        /\ mpc[h] = "map"
        /\ MapOf(mcall[h]) = MapOf(mcall[g])
        /\ MapWrites(mcall[g]) \/ MapWrites(mcall[h])

\* the rest of the handler. how = "fatal": the runtime notices the concurrent
\* map access and ends the process; "objfail": the object store refuses the
\* delete of Unlink
MapLeave(g, how) ==
    /\ ~crashed
    /\ mpc[g] = "map"
    /\ LET c == mcall[g]
           r == IF c.op = "Lookup" THEN LookupRes(c.n, c.name)
                ELSE IF c.op = "Rmdir" THEN RmdirRes(c.n, c.name)
                ELSE UnlinkRes(c.n, c.name, how # "objfail")
       IN IF how = "fatal"
          THEN /\ MapRace(g)
               /\ crashed' = TRUE
               /\ mpc' = [h \in Goroutines |-> "idle"]
               /\ mcall' = [h \in Goroutines |-> NoCall]
               /\ UNCHANGED <<nodeRows, edges, blobs, inodes, caches, reported, unlinked>>
          ELSE /\ how = "objfail" => c.op = "Unlink"
               /\ edges' = r.edges
               /\ nodeRows' = r.rows
               /\ caches' = r.caches
               /\ blobs' = r.blobs
               /\ crashed' = (r.errno = PANIC)
               /\ inodes' = IF r.errno # OK THEN inodes
                            ELSE IF c.op = "Lookup"
                            THEN AddChild(NewInode(inodes, r.ino,
                                     Node(r.key, inodes[c.n].map, r.dir)), c.n, c.name, r.ino)
                            ELSE RmChild(inodes, c.n, c.name)
               /\ unlinked' = IF c.op = "Unlink" /\ r.errno = OK
                              THEN [dir |-> c.n, name |-> c.name, ino |-> r.ino]
                              ELSE unlinked
               /\ reported' = IF c.op = "Lookup" THEN reported ELSE Forgot(reported, c.n)
               /\ mpc' = [mpc EXCEPT ![g] = "idle"]
               /\ mcall' = [mcall EXCEPT ![g] = NoCall]
    /\ UNCHANGED <<rootKey, nextIno, statVars, cryptoVars, writeVars, metaVars>>

NextRace ==
    \/ \E n \in Dirs, name \in Names : Create(n, name, MaxAlloc)
    \/ \E n \in Dirs : Readdir(n)
    \/ \E g \in Goroutines, op \in MapOps, n \in Dirs, name \in LookupNames :
          MapEnter(g, op, n, name)
    \/ \E g \in Goroutines, how \in {"done", "objfail", "fatal"} : MapLeave(g, how)

SpecRace == Init /\ [][NextRace]_vars

\* ================================== the crypto helper called with any input
\* keys: none, two of 32 bytes, one of 16 bytes, one of a single byte
CryptoKeys == {Nil, Key(0), Key(1), Str(Rep("k", 16)), Str("k")}
\* inputs: nothing, 2 bytes, one byte less than a nonce, exactly a nonce
CryptoTexts == {Nil, Str("HI"), Str(Rep("x", NonceSize - 1)), Str(Rep("x", NonceSize))}
Nonces == {0, 1}

\* how many seals are wrapped around a value
RECURSIVE Seals(_)
Seals(v) == IF v.t = "gcm" THEN 1 + Seals(v.p) ELSE 0

InitCrypto ==
    /\ Mounted /\ StatIdle /\ RaceIdle /\ WritersIdle /\ MetaIdle
    /\ cryptoOp = "none"
    /\ cryptoKey \in CryptoKeys
    /\ cryptoIn \in CryptoTexts
    /\ cryptoOut = [st |-> "ok", v |-> Nil]

EncryptCall(nonce) ==
    /\ Seals(cryptoIn) < MaxSeal
    /\ cryptoOp' = "Encrypt"
    /\ cryptoOut' = Encrypt(cryptoKey, cryptoIn, nonce)
    /\ UNCHANGED <<cryptoKey, cryptoIn, fsVars, statVars, writeVars, metaVars, raceVars>>

DecryptCall ==
    /\ cryptoOp' = "Decrypt"
    /\ cryptoOut' = Decrypt(cryptoKey, cryptoIn)
    /\ UNCHANGED <<cryptoKey, cryptoIn, fsVars, statVars, writeVars, metaVars, raceVars>>

\* the caller goes on with what it was returned, under a key of its choice
Feed(k) ==
    /\ cryptoOp # "none"
    /\ cryptoOut.st = "ok"
    /\ cryptoIn' = cryptoOut.v
    /\ cryptoKey' = k
    /\ cryptoOp' = "none"
    /\ UNCHANGED <<cryptoOut, fsVars, statVars, writeVars, metaVars, raceVars>>

NextCrypto ==
    \/ \E nonce \in Nonces : EncryptCall(nonce)
    \/ DecryptCall
    \/ \E k \in CryptoKeys : Feed(k)

SpecCrypto == InitCrypto /\ [][NextCrypto]_vars

\* ===================================================== dbMeta: Init, Load,
\* doLookup and the retry loops txn / roTxn they run their bodies in
LookupKeys == {[parent |-> rootID, name |-> Str("a")]}

\* a database nothing was ever written to, no mount
Unformatted ==
    /\ rootKey = RootK
    /\ nodeRows = Empty
    /\ edges = {}
    /\ nextIno = FirstIno
    /\ blobs = Empty
    /\ inodes = Empty
    /\ caches = Empty
    /\ crashed = FALSE
    /\ reported = NoReport
    /\ unlinked = NoUnlink
    /\ tables = {}
    /\ setting = NoRow
    /\ mfmt = NoRow
    /\ inited = NoRow

InitMeta == Unformatted /\ TxnIdle /\ StatIdle /\ RaceIdle /\ CryptoIdle /\ WritersIdle

\* the first transaction of a call starts
StartTxn(op, arg) ==
    /\ call' = [op |-> op, arg |-> arg, stage |-> 1, ok |-> FALSE, data |-> NoRow]
    /\ txnPc' = "attempt"
    /\ attempt' = 0
    /\ txErr' = NoErr
    /\ lastErr' = NoErr
    /\ runs' = 0
    /\ cancelled' = FALSE
    /\ result' = NoResult

\* Init up to its first transaction; synced: how many of the Sync2 calls succeed
CallInit(format, synced) ==
    /\ txnPc = "idle"
    /\ tables' = tables \cup TablesUpTo(synced)
    /\ IF synced < Len(AllTables)
       THEN /\ result' = [op |-> "Init", err |-> ErrCreateTable]
            /\ attempt' = 0 /\ txErr' = NoErr /\ lastErr' = NoErr /\ runs' = 0
            /\ cancelled' = FALSE
            /\ UNCHANGED <<call, txnPc>>
       ELSE StartTxn("Init", format)
    /\ UNCHANGED <<setting, mfmt, inited, fsVars, statVars, cryptoVars, writeVars, raceVars>>

CallLoad ==
    /\ txnPc = "idle"
    /\ StartTxn("Load", NoRow)
    /\ UNCHANGED <<tables, setting, mfmt, inited, fsVars, statVars, cryptoVars, writeVars, raceVars>>

CallDoLookup(k) ==
    /\ txnPc = "idle"
    /\ StartTxn("doLookup", k)
    /\ UNCHANGED <<tables, setting, mfmt, inited, fsVars, statVars, cryptoVars, writeVars, raceVars>>

\* what one run of the body does
Ran(e, set, rows, ok, data) ==
    [err |-> e, setting |-> set, rows |-> rows, ok |-> ok, data |-> data]
Failed(e) == Ran(e, setting, nodeRows, call.ok, call.data)

\* Init, first transaction: ok, err = ses.Get(&s)
InitGetBody == Ran(NoErr, setting, nodeRows, setting # NoRow, setting)

\* Init, second transaction
InitPutBody ==
    LET data == MarshalIndent(call.arg)
    IN IF call.ok THEN Ran(NoErr, data, nodeRows, call.ok, call.data)
       ELSE IF setting # NoRow THEN Failed(ErrUnique)
       ELSE IF rootID \in DOMAIN nodeRows THEN Failed(ErrUnique)
       ELSE Ran(NoErr, data, Put(nodeRows, rootID, RootNode), call.ok, call.data)

doLoadBody ==
    IF "setting" \notin tables THEN Failed(NoErr)
    ELSE Ran(NoErr, setting, nodeRows, call.ok, setting)

doLookupBody ==
    IF "edge" \notin tables THEN Failed(Error(<<"no", "such", "table">>))
    ELSE IF \E e \in edges : e.parent = call.arg.parent /\ e.name = call.arg.name
    THEN Failed(NoErr)
    ELSE Failed(Errno(ENOENT))

Body(fault) ==
    IF fault # NoErr THEN Failed(fault)
    ELSE IF call.op = "Init" /\ call.stage = 1 THEN InitGetBody
    ELSE IF call.op = "Init" THEN InitPutBody
    ELSE IF call.op = "Load" THEN doLoadBody
    ELSE doLookupBody

\* one turn of `for i := 0; i < 50; i++` up to the sleep or the return
TxnAttempt(fault) ==
    /\ txnPc = "attempt"
    /\ LET b == Body(fault)
           e == DropErrnoZero(b.err)
       IN /\ setting' = b.setting
          /\ nodeRows' = b.rows
          /\ call' = [call EXCEPT !.ok = b.ok, !.data = b.data]
          /\ txErr' = e
          /\ IF e # NoErr /\ shouldRetry(e)
             THEN lastErr' = e /\ txnPc' = "sleep"
             ELSE lastErr' = lastErr /\ txnPc' = "done"
    /\ runs' = runs + 1
    /\ UNCHANGED <<tables, mfmt, inited, attempt, cancelled, result>>
    /\ UNCHANGED <<rootKey, edges, nextIno, blobs, inodes, caches, crashed, reported,
                   unlinked, statVars, cryptoVars, writeVars, raceVars>>

\* time.Sleep(i*i ms); continue: i++, and `return lastErr` after the last turn
TxnSleep ==
    /\ txnPc = "sleep"
    /\ attempt' = attempt + 1
    /\ IF attempt + 1 < MaxTries
       THEN txnPc' = "attempt" /\ txErr' = txErr
       ELSE txnPc' = "done" /\ txErr' = lastErr
    /\ UNCHANGED <<tables, setting, mfmt, call, lastErr, runs, cancelled, result, inited,
                   fsVars, statVars, cryptoVars, writeVars, raceVars>>

\* the method returns
Finish(r) ==
    /\ result' = r
    /\ call' = NoCall
    /\ txnPc' = "idle"
    /\ UNCHANGED <<attempt, txErr, lastErr, runs>>

\* doLookup: `if eno, ok := err.(syscall.Errno); ok { return eno }; return 0`
doLookupReturn ==
    /\ Finish([op |-> "doLookup", errno |-> IF txErr.k = "errno" THEN txErr.e ELSE OK])
    /\ UNCHANGED <<mfmt, inited>>

LoadReturn ==
    LET err == IF txErr = NoErr /\ call.data = NoRow THEN ErrNotFormatted ELSE txErr
        format == Unmarshal(call.data)
    IN /\ IF err # NoErr
          THEN Finish([op |-> "Load", err |-> err, fmt |-> NoRow]) /\ mfmt' = mfmt
          ELSE IF format.st # "ok"
          THEN Finish([op |-> "Load", err |-> ErrJson, fmt |-> NoRow]) /\ mfmt' = mfmt
          ELSE Finish([op |-> "Load", err |-> NoErr, fmt |-> format.v])
               /\ mfmt' = format.v
       /\ UNCHANGED inited

\* Init between its two transactions; updOk: format.update(&old) accepts
InitMiddle(updOk) ==
    /\ IF txErr # NoErr
       THEN Finish([op |-> "Init", err |-> txErr]) /\ mfmt' = mfmt
       ELSE IF call.ok /\ Unmarshal(call.data).st # "ok"
       THEN Finish([op |-> "Init", err |-> ErrJson]) /\ mfmt' = mfmt
       ELSE IF call.ok /\ ~updOk
       THEN Finish([op |-> "Init", err |-> ErrUpdate]) /\ mfmt' = mfmt
       ELSE /\ mfmt' = call.arg
            /\ call' = [call EXCEPT !.stage = 2]
            /\ txnPc' = "attempt"
            /\ attempt' = 0
            /\ txErr' = NoErr
            /\ lastErr' = NoErr
            /\ runs' = 0
            /\ result' = result
    /\ UNCHANGED inited

InitReturn ==
    /\ Finish([op |-> "Init", err |-> txErr])
    /\ inited' = IF txErr = NoErr THEN call.arg ELSE inited
    /\ UNCHANGED mfmt

Return(updOk) ==
    /\ txnPc = "done"
    /\ IF call.op = "doLookup" THEN doLookupReturn
       ELSE IF call.op = "Load" THEN LoadReturn
       ELSE IF call.stage = 1 THEN InitMiddle(updOk)
       ELSE InitReturn
    /\ UNCHANGED <<tables, setting, cancelled, fsVars, statVars, cryptoVars, writeVars, raceVars>>

\* the transport cancels the request while its transaction is running
Cancel ==
    /\ txnPc \in {"attempt", "sleep"}
    /\ ~cancelled
    /\ cancelled' = TRUE
    /\ UNCHANGED <<tables, setting, mfmt, call, txnPc, attempt, txErr, lastErr, runs,
                   result, inited, fsVars, statVars, cryptoVars, writeVars, raceVars>>

NextMeta ==
    \/ \E format \in Formats, synced \in 0..Len(AllTables) : CallInit(format, synced)
    \/ CallLoad
    \/ \E k \in LookupKeys : CallDoLookup(k)
    \/ \E fault \in Faults : TxnAttempt(fault)
    \/ TxnSleep
    \/ \E updOk \in BOOLEAN : Return(updOk)
    \/ Cancel

SpecMeta == InitMeta /\ [][NextMeta]_vars

\* the loop's steps are taken: the sleep ends, the database answers
SpecMetaFair ==
    SpecMeta /\ WF_vars(\E fault \in Faults : TxnAttempt(fault)) /\ WF_vars(TxnSleep)

\* ------------------------------------------------------------ claim helpers
\* the name sealed in an edge's encrypted_name, opened with the child's key
PlainName(e) == GoString(Decrypt(Key(e.ino), e.name).v)
EdgesNamed(n, name) == {e \in edges : e.parent = n /\ PlainName(e) = name}
\* the edges Create and Mkdir inserted carry an allocated inode number
Made == {e \in edges : e.ino >= FirstIno}
CacheOf(n) == caches[inodes[n].map]
StoresUntouched(r) ==
    /\ r.calls = <<>>
    /\ r.edges = edges /\ r.rows = nodeRows /\ r.blobs = blobs
    /\ r.caches = caches /\ r.nextIno = nextIno

\* ------------------------------------------------------------------ claims
\* C1: after a successful Readdir on a directory node D, with no upcall on D
\* itself in between, Lookup on D succeeds for every name the stream reported
\* (stated for the real entries; "." and ".." are never in the cache).
C1_ReaddirThenLookup ==
    \A n \in DOMAIN reported : \A name \in reported[n] \ {".", ".."} :
        LookupRes(n, name).errno = OK

\* C2: Lookup of a name the node's cache does not hold returns ENOENT, calls
\* no store and leaves the cache alone, also when the metadata store has an
\* edge of that name under the directory.
C2_LookupMissIsENOENT ==
    \A n \in Dirs, name \in LookupNames \ {LongName} :
        name \notin DOMAIN CacheOf(n) =>
            /\ LookupRes(n, name).errno = ENOENT
            /\ StoresUntouched(LookupRes(n, name))

C2_Witness ==
    /\ "a" \notin DOMAIN CacheOf(rootID)
    /\ EdgesNamed(rootID, "a") # {}
    /\ LookupRes(rootID, "a").errno = ENOENT

\* an entry of cache m that this step added or changed
Added(m, name) ==
    /\ m \in DOMAIN caches' /\ name \in DOMAIN caches'[m]
    /\ \/ m \notin DOMAIN caches
       \/ name \notin DOMAIN caches[m]
       \/ caches[m][name] # caches'[m][name]

\* C3: a cache entry a directory node D can see was inserted by a
\* Readdir on that same node D, and by nothing else.
C3_OnlyOwnReaddirFills ==
    [][\A m \in DOMAIN caches' : \A name \in DOMAIN caches'[m] :
          Added(m, name) =>
              \E n \in Dirs : /\ Readdir(n)
                              /\ \A d \in Dirs : inodes[d].map = m => d = n]_vars

\* C4: after a successful Unlink(name) of a file with inode ino, and until the
\* name is created again, Lookup(name) on the directory returns ENOENT and the
\* object store has no blob for ino, so that File.Read returns EIO.
C4_UnlinkedStaysGone ==
    unlinked.dir \in Dirs =>
        /\ LookupRes(unlinked.dir, unlinked.name).errno = ENOENT
        /\ unlinked.ino \notin DOMAIN blobs
        /\ ReadRes(unlinked.ino, 0).errno = EIO

\* C5: Create and Mkdir of a name the directory already has an edge for
\* return EEXIST and insert nothing, so the directory never lists a name twice.
C5_DuplicateRejected ==
    \A n \in Dirs, name \in Names :
        /\ Cardinality(EdgesNamed(n, name)) <= 1
        /\ EdgesNamed(n, name) # {} =>
              /\ CreateRes(n, name).errno = EEXIST
              /\ MkdirRes(n, name).errno = EEXIST
              /\ StoresUntouched(CreateRes(n, name))
              /\ StoresUntouched(MkdirRes(n, name))

\* C6: Lookup, Create, Mkdir, Rmdir and Unlink of a name longer than 255 bytes
\* return ENAMETOOLONG before any store call and change nothing.
C6_LongNameRejected ==
    \A n \in Dirs :
        \A r \in {LookupRes(n, LongName), CreateRes(n, LongName), MkdirRes(n, LongName),
                  RmdirRes(n, LongName), UnlinkRes(n, LongName, TRUE),
                  UnlinkRes(n, LongName, FALSE)} :
            /\ Len(LongName) > 255
            /\ r.errno = ENAMETOOLONG
            /\ StoresUntouched(r)

C6_Witness ==
    /\ Cardinality(Dirs) >= 2
    /\ Made # {}
    /\ CacheOf(rootID) # Empty
    /\ CreateRes(rootID, LongName).errno = ENAMETOOLONG
    /\ RmdirRes(SharedInode, LongName).errno = ENAMETOOLONG

\* C7: Rmdir returns EPERM for "shared", EINVAL for "." and ENOTEMPTY for "..",
\* on every directory node, without a store call or a change of the cache.
C7_RmdirReservedNames ==
    \A n \in Dirs :
        /\ RmdirRes(n, "shared").errno = EPERM
        /\ RmdirRes(n, ".").errno = EINVAL
        /\ RmdirRes(n, "..").errno = ENOTEMPTY
        /\ \A s \in {"shared", ".", ".."} : StoresUntouched(RmdirRes(n, s))

C7_Witness ==
    /\ "shared" \in DOMAIN CacheOf(rootID)
    /\ ChildrenOf(SharedInode) = {}
    /\ \E n \in Dirs \ {rootID, SharedInode} : RmdirRes(n, "shared").errno = EPERM

\* C8: every blob in the object store is the ciphertext of the written data
\* under the file node's key, never the bytes the caller passed to Write.
C8_BlobsAreCiphertext ==
    \A f \in DOMAIN blobs :
        /\ blobs[f] \notin Payloads
        /\ blobs[f].t = "gcm" /\ blobs[f].k = Key(f)

\* C9: no edge inserted by Create or Mkdir holds the child's key in plaintext,
\* whatever key the root node was constructed with.
C9_NoPlaintextKeyOnDisk ==
    \A e \in Made : e.key # Key(e.ino)

\* C10: the wrapped_key of every edge inserted by Create or Mkdir on D opens,
\* with the key Readdir and Lookup on D use, to the child's 32-byte key, and
\* that key opens the edge's encrypted_name to a name.
C10_WrappedKeyOpens ==
    \A e \in Made :
        e.parent \in Dirs =>
            LET k == Unwrap(e.parent, e.key)
            IN /\ k.st = "ok"
               /\ k.v = Key(e.ino) /\ Size(k.v) = 32
               /\ Decrypt(k.v, e.name).st = "ok"
               /\ GoString(Decrypt(k.v, e.name).v) \in Names


\* C11: after successful File.Write calls only, the length in a file's node
\* row equals the size of the blob the object store holds for its inode.
C11_LengthIsBlobSize ==
    \A f \in DOMAIN blobs \cap DOMAIN nodeRows : nodeRows[f].length = Size(blobs[f])

\* C12: a failed File.Write leaves the other store as it was: when meta.Write
\* fails its errno is returned and nothing is put; when the put fails EIO is
\* returned and the node rows are those from before the call.
C12_FailedWriteLeavesOther ==
    \A f \in Files, data \in Payloads, off \in Offsets :
        IF MetaWrite(f, data, off).errno # OK
        THEN \A objOk \in BOOLEAN :
                /\ WriteRes(f, data, off, objOk).errno = MetaWrite(f, data, off).errno
                /\ WriteRes(f, data, off, objOk).blobs = blobs
                /\ WriteRes(f, data, off, objOk).calls = <<"Write">>
        ELSE /\ WriteRes(f, data, off, FALSE).errno = EIO
             /\ WriteRes(f, data, off, FALSE).blobs = blobs
             /\ WriteRes(f, data, off, FALSE).rows = nodeRows

\* C15: two File.Write calls on one inode are serialized: never are both
\* between their meta.Write and their obj.Put, and when both have returned the
\* blob and the metadata come from the same call.
C15_WritesSerialized ==
    /\ ~(\A w \in Writers : wpc[w] = "put" /\ wdata[w].ino = wdata[1].ino)
    /\ ((\A w \in Writers : wpc[w] = "idle") /\ putBy # 0) => metaBy = putBy

\* C16: Decrypt called with a non-empty key and a ciphertext shorter than the
\* 12-byte nonce returns an error.
C16_ShortCiphertextFails ==
    (cryptoOp = "Decrypt" /\ Size(cryptoKey) # 0 /\ Size(cryptoIn) < 12)
        => cryptoOut.st = "err"

\* C17: Encrypt called with a non-empty key that is no AES key length returns
\* an error value to its caller and does not abort the process.
C17_BadKeyIsAnError ==
    (cryptoOp = "Encrypt" /\ Size(cryptoKey) # 0 /\ Size(cryptoKey) \notin {16, 24, 32})
        => cryptoOut.st = "err"

\* x * m modulo 2^64 for a factor below 2^15
MulU64(x, m) ==
    LET p1 == x[1] * m
        p2 == x[2] * m + (p1 \div Limb)
        p3 == x[3] * m + (p2 \div Limb)
        p4 == x[4] * m + (p3 \div Limb)
    IN <<p1 % Limb, p2 % Limb, p3 % Limb, p4 % Limb>>

\* 2^40 = 256 * 2^32
OneTiB == <<0, 0, 256, 0>>

\* C18: Statfs always returns errno 0 with Bsize = 4096, NameLen = 255 and a
\* total capacity Blocks * Bsize of 1 TiB (2^40 bytes), whatever the state of
\* the filesystem.
C18_StatfsOneTiB ==
    statfsOut # NoStatfs =>
        /\ statfsOut.errno = OK
        /\ statfsOut.Bsize = 4096
        /\ statfsOut.NameLen = 255
        /\ MulU64(statfsOut.Blocks, statfsOut.Bsize) = OneTiB

\* C21: accesses to a name cache are mutually exclusive: no two concurrent
\* upcalls on nodes that use the same cache are inside it at the same time.
C21_CacheExclusive ==
    \A g, h \in Goroutines :
        (g # h /\ mpc[g] = "map" /\ mpc[h] = "map")
            => MapOf(mcall[g]) # MapOf(mcall[h])

\* C22: a successful Create(name) or Mkdir(name) on directory D that allocated
\* inode ino leaves D's name cache mapping name to exactly ino, whatever the
\* cache held for name before.
C22_CreateInstalls ==
    [][\A n \in Dirs, name \in Names :
          (\/ CreateStep(n, name) /\ CreateRes(n, name).errno = OK
           \/ MkdirStep(n, name) /\ MkdirRes(n, name).errno = OK)
              => /\ name \in DOMAIN caches'[inodes[n].map]
                 /\ caches'[inodes[n].map][name] = nextIno]_vars

\* the errors the retry loop is meant for: lock contention, connection exhaustion
Transient == {ErrLocked, ErrTooMany}
\* the errno a finished dbMeta call reported, "" if it reported another error
Reported ==
    IF result.op = "doLookup" THEN result.errno
    ELSE IF result.err = NoErr THEN OK
    ELSE IF result.err.k = "errno" THEN result.err.e
    ELSE ""

\* C13: a metadata operation whose transaction failed all 50 attempts with a
\* transient error reports EIO to its caller.
C13_ExhaustionIsEIO ==
    (result.op \in {"Init", "Load", "doLookup"} /\ runs = MaxTries /\ txErr \in Transient)
        => Reported = EIO

\* C14: once the request is cancelled while its transaction is retrying, the
\* loop runs the body no more and what it returns is EINTR.
C14_CancelStopsRetry ==
    [][(cancelled /\ runs >= 1 /\ txnPc \in {"attempt", "sleep"}) =>
          /\ runs' = runs
          /\ txnPc' = "done" => txErr' = Errno(EINTR)]_vars

\* C23: doLookup returns errno 0 only when the edge (parent, name) was found,
\* and returns a non-zero errno whenever its read transaction ended in an
\* error that is not a syscall errno.
C23_LookupZeroMeansFound ==
    (call = NoCall /\ result.op = "doLookup") =>
        /\ result.errno = OK =>
               \E k \in LookupKeys, e \in edges :
                   e.parent = k.parent /\ e.name = k.name
        /\ (txErr # NoErr /\ txErr.k # "errno") => result.errno # OK

\* C19: after one or more successful Init calls the node table holds exactly
\* the root row (inode 1, Directory, mode 0777, nlink 2, parent 1), the format
\* setting is the descriptor of the last Init and Load returns it; as long as
\* no Init succeeded, Load returns the not-formatted error.
C19_InitThenLoad ==
    call = NoCall =>
        /\ inited # NoRow =>
              /\ DOMAIN nodeRows = {1}
              /\ nodeRows[1].type = TypeDirectory /\ nodeRows[1].mode = 511
              /\ nodeRows[1].nlink = 2 /\ nodeRows[1].parent = 1
              /\ setting = MarshalIndent(inited)
        /\ inited = NoRow => nodeRows = Empty /\ setting = NoRow
        /\ (result.op = "Load" /\ txErr = NoErr) =>
              IF inited # NoRow THEN result.err = NoErr /\ result.fmt = inited
              ELSE result.err = ErrNotFormatted

\* Load returns the descriptor of the second of two Init calls
C19_Witness ==
    /\ inited = Format("fs2")
    /\ result.op = "Load" /\ result.err = NoErr /\ result.fmt = Format("fs2")
    /\ rootID \in DOMAIN nodeRows

\* C20: a transaction runs its body at most 50 times; a further attempt starts
\* only after an attempt that failed with a transient error; a success or
\* another error is returned at once; and the loop always ends.
C20_TxnBoundedRetry ==
    /\ [](runs <= MaxTries /\ runs <= 50)
    /\ [][/\ (runs' = runs + 1 /\ runs >= 1) => txErr \in Transient
          /\ (runs' = runs + 1 /\ txErr' \notin Transient) => txnPc' = "done"]_vars
    /\ (txnPc = "attempt") ~> (txnPc = "done")

\* the fiftieth attempt failed like the others and the loop gave up
C20_Witness ==
    /\ txnPc = "done" /\ runs = MaxTries /\ attempt = MaxTries
    /\ txErr \in Transient

====
